---- MODULE Spec2Model ----
\* Verification model of uni-sync-curve: the fan controller of src/hardware.rs
\* (FanController::new, FanController::set_fan_speed), the curve evaluator of
\* src/curve.rs (calculate_fan_speed, interpolate) and the synchronous fan
\* controller of src/main.rs (run, FanController::set_fan_speed).
\*
\* Temperatures are integers (one unit = one step of the temperature grid) or
\* NaN, time is in milliseconds, bytes are integers in 0..255.
EXTENDS Integers, Sequences, FiniteSets

VARIABLES
    device_configs,   \* FanController.device_configs: the identities of the registry
    overflow_checks,  \* build profile: TRUE = debug (arithmetic overflow panics)
    pc,               \* position of the control thread inside set_fan_speed
    call,             \* arguments of the current (or last) set_fan_speed call
    hid,              \* the open HidDevice handle of the call, or NoHandle
    log,              \* writes issued by the current (or last) call, in order
    lastWrite,        \* kind of the most recent write on the bus, over all calls
    elapsed,          \* milliseconds since the most recent write (capped)
    result,           \* what the last finished call returned
    missed,           \* some call has returned the "not available" failure
    curve_points,     \* FanCurve.curve_points given to calculate_fan_speed
    temperature,      \* the temperature given to calculate_fan_speed
    speed,            \* <<the value calculate_fan_speed returned>>, or NoSpeed
    main_configs,     \* main.rs FanController.device_configs: device id -> channels
    main_pc,          \* position of the main.rs controller: idle, run, returned, exited
    main_call,        \* arguments of the current main.rs set_fan_speed call
    main_result,      \* what the last finished main.rs call returned
    existing_configs, \* run: the configurations run works with, device id -> channels
    cursor,           \* run: position in hidapi's device list
    commanded,        \* per controller and channel, the last speed report written
    written,          \* the controllers the current call has written a report to
    passed            \* per controller and channel, <<the last speed passed>>

vars == <<device_configs, overflow_checks, pc, call, hid, log, lastWrite, elapsed,
          result, missed, curve_points, temperature, speed, main_configs, main_pc,
          main_call, main_result, existing_configs, cursor, commanded, written,
          passed>>

mainVars == <<main_configs, main_pc, main_call, main_result, existing_configs,
              cursor, commanded, written, passed>>

ctrlVars == <<device_configs, overflow_checks, pc, call, hid, log, lastWrite,
              elapsed, result, missed>>

curveVars == <<curve_points, temperature, speed>>

-----------------------------------------------------------------------------
\* Bounds of the model.

\* channel indices 0..MaxChannel are passed to set_fan_speed
MaxChannel == 8

\* speed percentages 0..MaxLowSpeed are passed, besides the boundary values
MaxLowSpeed == 1

\* the time since the last write is tracked up to this many milliseconds
MaxElapsed == 300

\* curve points have the temperatures 3, 6, .., 3 * MaxTemp
MaxTemp == 3

\* curves have at most MaxPoints points
MaxPoints == 3

-----------------------------------------------------------------------------
\* Program constants.

\* u8::MAX, the width of speed_percent, channel_byte and every report byte
U8Max == 255

\* the upper end of the clamp of speed_percent and of interpolate's result
PercentMax == 100

\* a fail-safe that stalls the fan
DefaultSpeed_Stall == 0 * PercentMax

\* the fail-safe speed of calculate_fan_speed
DefaultSpeed == 50

\* VENDOR_IDS = [0x0cf2]
VENDOR_IDS == {3314}

\* PRODUCT_IDS = [0x7750, 0xa100, 0xa101, 0xa102, 0xa103, 0xa104, 0xa105]
PRODUCT_IDS == {30544, 41216, 41217, 41218, 41219, 41220, 41221}

\* a product id outside PRODUCT_IDS (0xa106, the one after the last listed)
UnlistedProduct == 41221 + 1

\* the least channel for which channel + 32 no longer fits a byte
WideChannel == U8Max + 1 - 32

NoSerial == "no-serial"
NoHandle == <<>>
NoCall == "no-call"
\* speed before calculate_fan_speed has returned; afterwards speed = <<value>>
NoSpeed == <<>>

ChannelMode == {"Manual", "PWM"}

-----------------------------------------------------------------------------
\* Bit arithmetic on bytes.

RECURSIVE Pow2(_)
Pow2(k) ==
    IF k = 0 THEN 1 ELSE 2 * Pow2(k - 1)

\* bit k of the natural number x
Bit(x, k) ==
    (x \div Pow2(k)) % 2

RECURSIVE BitOr(_, _)
BitOr(a, b) ==
    IF a = 0 THEN b
    ELSE IF b = 0 THEN a
    ELSE (IF a % 2 = 1 \/ b % 2 = 1 THEN 1 ELSE 0) + 2 * BitOr(a \div 2, b \div 2)

\* u8 << k for k < 8: bits shifted past bit 7 are lost
Shl8(x, k) ==
    (x * Pow2(k)) % (U8Max + 1)

-----------------------------------------------------------------------------
\* Device registry.

\* the HID devices hidapi lists on the host: one of each supported product, one
\* of an unlisted product, and one supported product that reports no serial
HostDevices ==
    {[vendor_id |-> 3314, product_id |-> p, serial_number |-> "SN"] :
        p \in PRODUCT_IDS \cup {UnlistedProduct}}
    \cup {[vendor_id |-> 3314, product_id |-> 30544, serial_number |-> NoSerial]}

\* DeviceId(vendor_id, product_id, serial_number)
DeviceId(d) ==
    [vendor_id |-> d.vendor_id, product_id |-> d.product_id,
     serial_number |-> d.serial_number]

\* FanController::new: the filter_map over hidapi.device_list()
NewDeviceConfigs ==
    {DeviceId(d) : d \in {h \in HostDevices :
        /\ h.vendor_id \in VENDOR_IDS
        /\ h.product_id \in PRODUCT_IDS
        /\ h.serial_number # NoSerial}}

\* identities a configuration file can name
CallIds ==
    {DeviceId(d) : d \in {h \in HostDevices : h.serial_number # NoSerial}}

-----------------------------------------------------------------------------
\* Protocol encoding of set_fan_speed.

\* third byte of the RGB-sync report, by product id
SyncOpcode(product_id) ==
    CASE product_id \in {41216, 30544} -> 48
      [] product_id = 41217 -> 65
      [] product_id = 41218 -> 97
      [] product_id \in {41219, 41221} -> 97
      [] product_id = 41220 -> 97
      [] OTHER -> 48

\* the 7-byte RGB-sync report
SyncReport(product_id, sync_byte) ==
    <<224, 16, SyncOpcode(product_id), sync_byte, 0, 0, 0>>

\* third byte of the channel-mode report, by product id
ModeOpcode(product_id) ==
    CASE product_id \in {41216, 30544} -> 49
      [] product_id = 41217 -> 66
      [] product_id = 41218 -> 98
      [] product_id \in {41219, 41221} -> 98
      [] product_id = 41220 -> 98
      [] OTHER -> 49

\* 0x10 << channel and 0x1 << channel panic in a build with overflow checks when
\* the shift amount reaches the width of u8
ShiftOverflows(channel) ==
    channel >= 8

\* channel_byte of a build without overflow checks (the shift amount is masked
\* to the width of u8) and of every build when the shift does not overflow
ChannelByte(channel, mode) ==
    LET base == Shl8(16, channel % 8)
    IN  IF mode = "PWM" THEN BitOr(base, Shl8(1, channel % 8)) ELSE base

\* the 4-byte channel-mode report
ModeReport(product_id, channel_byte) ==
    <<224, 16, ModeOpcode(product_id), channel_byte>>

\* the clamp left out: speed_percent goes into the scaling as it is
ClampSpeed_Unclamped(speed_percent) ==
    speed_percent

\* (speed_percent as f64).clamp(0.0, 100.0)
ClampSpeed(speed_percent) ==
    IF speed_percent > PercentMax THEN PercentMax
    ELSE IF speed_percent < 0 THEN 0
    ELSE speed_percent

\* (800.0 + (11.0 * speed)) as usize / 19
speed_800_1900(s) ==
    (800 + 11 * s) \div 19

\* (250.0 + (17.5 * speed)) as usize / 20: the cast truncates the half
speed_250_2000(s) ==
    ((2500 + 175 * s) \div 10) \div 20

\* (200.0 + (19.0 * speed)) as usize / 21
speed_200_2100(s) ==
    (200 + 19 * s) \div 21

\* the scaled speed the speed report carries, by product id
ScaledSpeed(product_id, s) ==
    CASE product_id \in {41216, 30544} -> speed_800_1900(s)
      [] product_id = 41217 -> speed_800_1900(s)
      [] product_id = 41218 -> speed_200_2100(s)
      [] product_id \in {41219, 41221} -> speed_250_2000(s)
      [] product_id = 41220 -> speed_250_2000(s)
      [] OTHER -> speed_800_1900(s)

\* one of the three try_into().unwrap() conversions to u8 fails
ScaleOverflows(s) ==
    \/ speed_800_1900(s) > U8Max
    \/ speed_250_2000(s) > U8Max
    \/ speed_200_2100(s) > U8Max

\* (channel + 32).try_into().unwrap() fails
ChannelOverflows(channel) ==
    channel + 32 > U8Max

\* the 4-byte speed report
SpeedReport(product_id, channel, speed_percent) ==
    <<224, channel + 32, 0, ScaledSpeed(product_id, ClampSpeed(speed_percent))>>

\* the sleep after the channel-mode write cut to 100 ms
SleepMs_ShortMode(kind) ==
    CASE kind = "sync" -> 200
      [] kind = "mode" -> 100
      [] kind = "speed" -> 100

\* the sleep that follows a write, in milliseconds
SleepMs(kind) ==
    CASE kind = "sync" -> 200
      [] kind = "mode" -> 200
      [] kind = "speed" -> 100

\* the test of the mode left out: the speed is written in every mode
AfterModeSleep_Always(mode) ==
    "speed"

\* where set_fan_speed goes after the sleep that follows the channel-mode write
AfterModeSleep(mode) ==
    IF mode = "Manual" THEN "speed" ELSE "return"

-----------------------------------------------------------------------------
\* Inputs of set_fan_speed.

ChannelInputs == (0..MaxChannel) \cup {WideChannel}

SpeedInputs ==
    (0..MaxLowSpeed) \cup {PercentMax, PercentMax + 1, U8Max}

\* time passes: the clock moves on by ms
Advance(ms) ==
    IF elapsed + ms > MaxElapsed THEN MaxElapsed ELSE elapsed + ms

\* hid.write(bytes): the write is attempted and succeeds (ok) or fails
Write(kind, bytes, ok) ==
    /\ log' = Append(log, [kind |-> kind, bytes |-> bytes,
                           prev |-> lastWrite, gap |-> elapsed, ok |-> ok])
    /\ lastWrite' = kind
    /\ elapsed' = 0

\* the Result of the write passed on with the ? operator: a failed write ends
\* the call
AfterWrite_Propagates(ok, next) ==
    IF ok THEN next ELSE "failed"

\* let _ = hid.write(..): the Result of the write is discarded, the call goes on
\* to its next step whether the write succeeded or failed
AfterWrite(ok, next) ==
    next

-----------------------------------------------------------------------------
\* set_fan_speed, one action per step of the control thread.

\* the lookup taken to succeed for every identity
Resolves_Any(device_id) ==
    TRUE

\* self.device_configs.get(device_id) finds an entry
Resolves(device_id) ==
    device_id \in device_configs

\* the call, up to the registry lookup: an unknown identity returns the failure
\* at once (Err through the ? operator), a known one goes on to open the device
Call(device_id, channel, mode, speed_percent) ==
    /\ pc = "idle"
    /\ call' = [device_id |-> device_id, channel |-> channel, mode |-> mode,
                speed_percent |-> speed_percent]
    /\ log' = <<>>
    /\ IF Resolves(device_id)
       THEN /\ pc' = "open"
            /\ result' = "pending"
            /\ UNCHANGED missed
       ELSE /\ pc' = "returned"
            /\ result' = "NotAvailable"
            /\ missed' = TRUE
    /\ UNCHANGED <<device_configs, overflow_checks, hid, lastWrite, elapsed>>
    /\ UNCHANGED curveVars
    /\ UNCHANGED mainVars

\* hidapi.open_path succeeds
OpenOk ==
    /\ pc = "open"
    /\ hid' = call.device_id
    /\ pc' = "sync"
    /\ UNCHANGED <<device_configs, overflow_checks, call, log, lastWrite, elapsed,
                   result, missed>>
    /\ UNCHANGED curveVars
    /\ UNCHANGED mainVars

\* hidapi.open_path fails: std::process::exit(0)
OpenFail ==
    /\ pc = "open"
    /\ pc' = "exited"
    /\ UNCHANGED <<device_configs, overflow_checks, call, hid, log, lastWrite,
                   elapsed, result, missed>>
    /\ UNCHANGED curveVars
    /\ UNCHANGED mainVars

\* the RGB-sync write (sync_rgb is false)
WriteSync ==
    /\ pc = "sync"
    /\ \E ok \in BOOLEAN :
          /\ Write("sync", SyncReport(call.device_id.product_id, 0), ok)
          /\ pc' = AfterWrite(ok, "sleep_sync")
    /\ UNCHANGED <<device_configs, overflow_checks, call, hid, result, missed>>
    /\ UNCHANGED curveVars
    /\ UNCHANGED mainVars

\* time::sleep after the write of the given kind
Sleep(kind) ==
    /\ pc = "sleep_" \o kind
    /\ elapsed' = Advance(SleepMs(kind))
    /\ UNCHANGED <<device_configs, overflow_checks, call, log, lastWrite, missed>>
    /\ UNCHANGED curveVars
    /\ UNCHANGED mainVars

\* the handle kept open when the call returns
Return_KeepsHandle ==
    /\ pc' = "returned"
    /\ result' = "Ok"
    /\ UNCHANGED hid

\* Ok(()): the handle is dropped as the call returns
Return ==
    /\ pc' = "returned"
    /\ result' = "Ok"
    /\ hid' = NoHandle

SleepSync ==
    /\ Sleep("sync")
    /\ pc' = "mode"
    /\ UNCHANGED <<hid, result>>

\* the channel byte and the channel-mode write
WriteMode ==
    /\ pc = "mode"
    /\ IF overflow_checks /\ ShiftOverflows(call.channel)
       THEN /\ pc' = "panic_shift"
            /\ hid' = NoHandle
            /\ UNCHANGED <<log, lastWrite, elapsed>>
       ELSE /\ \E ok \in BOOLEAN :
                  /\ Write("mode", ModeReport(call.device_id.product_id,
                                              ChannelByte(call.channel, call.mode)),
                           ok)
                  /\ pc' = AfterWrite(ok, "sleep_mode")
            /\ UNCHANGED hid
    /\ UNCHANGED <<device_configs, overflow_checks, call, result, missed>>
    /\ UNCHANGED curveVars
    /\ UNCHANGED mainVars

SleepMode ==
    /\ Sleep("mode")
    /\ IF AfterModeSleep(call.mode) = "speed"
       THEN pc' = "speed" /\ UNCHANGED <<hid, result>>
       ELSE Return

\* the scaling of the speed and the speed write
WriteSpeed ==
    /\ pc = "speed"
    /\ IF ScaleOverflows(ClampSpeed(call.speed_percent))
       THEN /\ pc' = "panic_scale"
            /\ hid' = NoHandle
            /\ UNCHANGED <<log, lastWrite, elapsed>>
       ELSE IF ChannelOverflows(call.channel)
       THEN /\ pc' = "panic_channel"
            /\ hid' = NoHandle
            /\ UNCHANGED <<log, lastWrite, elapsed>>
       ELSE /\ \E ok \in BOOLEAN :
                  /\ Write("speed", SpeedReport(call.device_id.product_id,
                                                call.channel, call.speed_percent),
                           ok)
                  /\ pc' = AfterWrite(ok, "sleep_speed")
            /\ UNCHANGED hid
    /\ UNCHANGED <<device_configs, overflow_checks, call, result, missed>>
    /\ UNCHANGED curveVars
    /\ UNCHANGED mainVars

SleepSpeed ==
    /\ Sleep("speed")
    /\ Return

\* the caller takes the Result of the call and goes on to its next call
Resume ==
    /\ pc = "returned"
    /\ pc' = "idle"
    /\ call' = NoCall
    /\ log' = <<>>
    /\ UNCHANGED <<device_configs, overflow_checks, hid, lastWrite, elapsed, result,
                   missed>>
    /\ UNCHANGED curveVars
    /\ UNCHANGED mainVars

\* the polling interval of the caller (whole seconds) passes between two calls
IntervalTick ==
    /\ pc = "idle"
    /\ elapsed < MaxElapsed
    /\ elapsed' = Advance(1000)
    /\ UNCHANGED <<device_configs, overflow_checks, pc, call, hid, log, lastWrite,
                   result, missed>>
    /\ UNCHANGED curveVars
    /\ UNCHANGED mainVars

-----------------------------------------------------------------------------
\* The synchronous controller of src/main.rs: run and FanController.

\* api.device_list(), in the order hidapi enumerates it: two supported
\* controllers and a device of an unlisted product
MainDeviceList ==
    <<[vendor_id |-> 3314, product_id |-> 41216, serial_number |-> "SN",
       path |-> "hidraw0"],
      [vendor_id |-> 3314, product_id |-> UnlistedProduct, serial_number |-> "SN",
       path |-> "hidraw1"],
      [vendor_id |-> 3314, product_id |-> 41218, serial_number |-> "SN",
       path |-> "hidraw2"]>>

\* the filter of run: listed vendor, listed product, a serial number
IsController(h) ==
    /\ h.vendor_id \in VENDOR_IDS
    /\ h.product_id \in PRODUCT_IDS
    /\ h.serial_number # NoSerial

\* format!("VID:{}/PID:{}/SN:{}/PATH:{}", ..): the four parts of the string
MainDeviceId(h) ==
    [vendor_id |-> h.vendor_id, product_id |-> h.product_id,
     serial_number |-> h.serial_number, path |-> h.path]

ControllerIds ==
    {MainDeviceId(MainDeviceList[i]) :
        i \in {j \in DOMAIN MainDeviceList : IsController(MainDeviceList[j])}}

\* device ids a configuration file can name
MainCallIds ==
    {MainDeviceId(MainDeviceList[i]) : i \in DOMAIN MainDeviceList}

Channel(mode, channel_speed) ==
    [mode |-> mode, speed |-> channel_speed]

\* the channels of a controller: default_channels holds four
ChannelCount == 4

\* the speed of a channel no configuration names
DefaultChannelSpeed == 50

\* four channels in Manual mode at 50 percent
default_channels ==
    [x \in 1..ChannelCount |-> Channel("Manual", DefaultChannelSpeed)]

\* the configuration run uses for the device: the one existing_configs holds for
\* its id, default_channels when it holds none
RunChannels(configs, device_id) ==
    IF device_id \in DOMAIN configs THEN configs[device_id] ELSE default_channels

\* the speed reports run writes to a device with the given channels, on top of
\* the reports the device had before: one for each channel in Manual mode (run
\* clamps and scales the speed and builds the report as hardware.rs does)
RunReports(product_id, channels, before) ==
    [x \in DOMAIN channels |->
        IF channels[x].mode = "Manual"
        THEN SpeedReport(product_id, x - 1, channels[x].speed)
        ELSE before[x]]

\* speeds passed to the main.rs set_fan_speed
MainSpeedInputs == {0, PercentMax + 1}

\* channels passed to the main.rs set_fan_speed
MainChannelInputs == 0..ChannelCount

\* the state FanController::new leaves: discover_devices has run over the
\* device list with no configuration and has inserted what run returned
MainConstructed ==
    /\ main_configs = [d \in ControllerIds |-> default_channels]
    /\ main_pc = "idle"
    /\ main_call = NoCall
    /\ main_result = "none"
    /\ existing_configs = <<>>
    /\ cursor = 0
    /\ commanded = [d \in ControllerIds |->
                        RunReports(d.product_id, default_channels,
                                   [x \in 1..ChannelCount |-> <<>>])]
    /\ written = {}
    /\ passed = [d \in ControllerIds |-> [x \in 1..ChannelCount |-> NoSpeed]]

\* FanController::set_fan_speed of main.rs up to the call of run: the device
\* and the channel are looked up, the channel is set to Manual at the speed, and
\* run is given the configuration of this device alone
MainCall(device_id, channel, speed_percent) ==
    /\ main_pc = "idle"
    /\ main_call' = [device_id |-> device_id, channel |-> channel,
                     speed_percent |-> speed_percent]
    /\ written' = {}
    /\ IF device_id \notin DOMAIN main_configs
       THEN /\ main_pc' = "returned"
            /\ main_result' = "DeviceNotFound"
            /\ UNCHANGED <<main_configs, existing_configs, cursor, passed>>
       ELSE IF ~(channel < Len(main_configs[device_id]))
       THEN /\ main_pc' = "returned"
            /\ main_result' = "ChannelNotFound"
            /\ UNCHANGED <<main_configs, existing_configs, cursor, passed>>
       ELSE /\ main_configs' = [main_configs EXCEPT ![device_id][channel + 1] =
                                    Channel("Manual", speed_percent)]
            /\ existing_configs' = [d \in {device_id} |-> main_configs'[d]]
            /\ cursor' = 1
            /\ passed' = [passed EXCEPT ![device_id][channel + 1] =
                              <<speed_percent>>]
            /\ main_pc' = "run"
            /\ main_result' = "pending"
    /\ UNCHANGED commanded
    /\ UNCHANGED ctrlVars
    /\ UNCHANGED curveVars

\* run, one turn of the loop over the device list, for a device the filter
\* drops
RunSkip ==
    /\ main_pc = "run"
    /\ cursor \in DOMAIN MainDeviceList
    /\ ~IsController(MainDeviceList[cursor])
    /\ cursor' = cursor + 1
    /\ UNCHANGED <<main_configs, main_pc, main_call, main_result, existing_configs,
                   commanded, written, passed>>
    /\ UNCHANGED ctrlVars
    /\ UNCHANGED curveVars

\* run, one turn of the loop: api.open_path fails, std::process::exit(0)
RunOpenFail ==
    /\ main_pc = "run"
    /\ cursor \in DOMAIN MainDeviceList
    /\ IsController(MainDeviceList[cursor])
    /\ main_pc' = "exited"
    /\ UNCHANGED <<main_configs, main_call, main_result, existing_configs, cursor,
                   commanded, written, passed>>
    /\ UNCHANGED ctrlVars
    /\ UNCHANGED curveVars

\* run, one turn of the loop for a controller that opens: its channels are
\* taken from existing_configs or from default_channels (which are then pushed
\* to existing_configs), and the RGB-sync report, the channel-mode report of
\* every channel and the speed report of every Manual channel are written
RunDevice ==
    /\ main_pc = "run"
    /\ cursor \in DOMAIN MainDeviceList
    /\ LET device_id == MainDeviceId(MainDeviceList[cursor])
           channels == RunChannels(existing_configs, device_id)
       IN /\ IsController(MainDeviceList[cursor])
          /\ existing_configs' =
                [d \in DOMAIN existing_configs \cup {device_id} |->
                    RunChannels(existing_configs, d)]
          /\ commanded' = [commanded EXCEPT ![device_id] =
                              RunReports(device_id.product_id, channels, @)]
          /\ written' = written \cup {device_id}
    /\ cursor' = cursor + 1
    /\ UNCHANGED <<main_configs, main_pc, main_call, main_result, passed>>
    /\ UNCHANGED ctrlVars
    /\ UNCHANGED curveVars

\* run returns at the end of the device list, and set_fan_speed returns Ok(())
RunReturn ==
    /\ main_pc = "run"
    /\ cursor \notin DOMAIN MainDeviceList
    /\ main_pc' = "returned"
    /\ main_result' = "Ok"
    /\ existing_configs' = <<>>
    /\ cursor' = 0
    /\ UNCHANGED <<main_configs, main_call, commanded, written, passed>>
    /\ UNCHANGED ctrlVars
    /\ UNCHANGED curveVars

\* the loop of main takes the Result (an Err is printed) and goes on to its
\* next call
MainResume ==
    /\ main_pc = "returned"
    /\ main_pc' = "idle"
    /\ main_call' = NoCall
    /\ written' = {}
    /\ UNCHANGED <<main_configs, main_result, existing_configs, cursor, commanded,
                   passed>>
    /\ UNCHANGED ctrlVars
    /\ UNCHANGED curveVars

-----------------------------------------------------------------------------
\* The controller's specification.

Init ==
    /\ device_configs = NewDeviceConfigs
    /\ overflow_checks \in BOOLEAN
    /\ pc = "idle"
    /\ call = NoCall
    /\ hid = NoHandle
    /\ log = <<>>
    /\ lastWrite = "none"
    /\ elapsed = 0
    /\ result = "none"
    /\ missed = FALSE
    /\ curve_points = <<>>
    /\ temperature = 0
    /\ speed = NoSpeed
    /\ MainConstructed

SetFanSpeed ==
    \E device_id \in CallIds, channel \in ChannelInputs, mode \in ChannelMode,
       speed_percent \in SpeedInputs :
        Call(device_id, channel, mode, speed_percent)

Next ==
    \/ SetFanSpeed
    \/ OpenOk
    \/ OpenFail
    \/ WriteSync
    \/ SleepSync
    \/ WriteMode
    \/ SleepMode
    \/ WriteSpeed
    \/ SleepSpeed
    \/ Resume
    \/ IntervalTick

Spec == Init /\ [][Next]_vars

-----------------------------------------------------------------------------
\* Properties of set_fan_speed.

Kinds(l) ==
    [i \in DOMAIN l |-> l[i].kind]

\* the fixed order of the writes of one call in the given mode
ExpectedKinds(mode) ==
    IF mode = "Manual" THEN <<"sync", "mode", "speed">> ELSE <<"sync", "mode">>

IsPrefix(a, b) ==
    /\ Len(a) <= Len(b)
    /\ \A i \in 1..Len(a) : a[i] = b[i]

\* C1: the writes of a call that has resolved and opened its device are, at
\* every moment, the first writes of the fixed order RGB-sync (7 bytes),
\* channel-mode (4 bytes), speed (4 bytes, Manual only): none is out of order or
\* repeated; a call that returns has issued all of them, two in PWM mode and
\* three in Manual mode.
C1_WriteOrder ==
    pc # "idle" =>
        /\ IsPrefix(Kinds(log), ExpectedKinds(call.mode))
        /\ \A i \in DOMAIN log :
              Len(log[i].bytes) = (IF log[i].kind = "sync" THEN 7 ELSE 4)
        /\ (pc = "returned" /\ result = "Ok") =>
              /\ Kinds(log) = ExpectedKinds(call.mode)
              /\ Len(log) = (IF call.mode = "PWM" THEN 2 ELSE 3)

\* a Manual call has returned after its three writes
C1_Witness ==
    /\ pc = "returned"
    /\ result = "Ok"
    /\ call.mode = "Manual"
    /\ Len(log) = 3

\* the delay a write of the given kind must be followed by, in milliseconds
MandatedDelay(kind) ==
    CASE kind = "sync" -> 200
      [] kind = "mode" -> 200
      [] kind = "speed" -> 100
      [] kind = "none" -> 0

\* C2: every write is issued no sooner after the write before it (of the same
\* call or of an earlier call, to any device) than that write's mandated delay:
\* 200 ms after the RGB-sync write, 200 ms after the channel-mode write, 100 ms
\* after the speed write.
C2_DelaysElapse ==
    \A i \in DOMAIN log : log[i].gap >= MandatedDelay(log[i].prev)

\* the first write of a call follows the speed write of the call before it by
\* exactly that write's delay
C2_Witness ==
    /\ Len(log) >= 1
    /\ log[1].prev = "speed"
    /\ log[1].gap = 100

\* the last byte of the speed report as the claim states it, for the clamped
\* speed s
C8_Scaled(product_id, s) ==
    CASE product_id \in {41219, 41220, 41221} -> (500 + 35 * s) \div 40
      [] product_id = 41218 -> (200 + 19 * s) \div 21
      [] OTHER -> (800 + 11 * s) \div 19

C8_Clamped(speed_percent) ==
    IF speed_percent > 100 THEN 100 ELSE speed_percent

\* the scaling, over every product id and every byte value of speed_percent
C8_Table ==
    /\ \A product_id \in PRODUCT_IDS \cup {UnlistedProduct}, b \in 0..U8Max :
          /\ ScaledSpeed(product_id, ClampSpeed(b)) = C8_Scaled(product_id, C8_Clamped(b))
          /\ ~ScaleOverflows(ClampSpeed(b))
    /\ ScaledSpeed(30544, ClampSpeed(0)) = 42
    /\ ScaledSpeed(30544, ClampSpeed(100)) = 100

\* C8: the last byte of every speed report equals the scaling of the clamped
\* speed_percent that belongs to the family of the product (800/11/19,
\* 250/17.5/20, 200/19/21), each scaled value fits a byte, so that the conversion
\* never fails, and the first family scales 0 to 42 and 100 to 100.
C8_SpeedScaling ==
    /\ C8_Table
    /\ pc # "panic_scale"
    /\ \A i \in DOMAIN log :
          log[i].kind = "speed" =>
              /\ log[i].bytes[4] = C8_Scaled(call.device_id.product_id,
                                             C8_Clamped(call.speed_percent))
              /\ log[i].bytes[4] \in 0..255

\* a speed report for speed_percent 255 has gone to a product of the second
\* family
C8_Witness ==
    /\ Len(log) = 3
    /\ call.speed_percent = 255
    /\ call.device_id.product_id = 41219
    /\ log[3].bytes[4] = 100

\* C9: the channel byte of every channel-mode report has bit (4 + channel) set,
\* bit (channel) set exactly in PWM mode, and no other bit set.
C9_ChannelByte ==
    \A i \in DOMAIN log :
        log[i].kind = "mode" =>
            \A k \in 0..15 :
                Bit(log[i].bytes[4], k) = 1 <=>
                    \/ k = 4 + call.channel
                    \/ k = call.channel /\ call.mode = "PWM"

\* C10: a call with an identity that is not in the registry returns the "not
\* available" failure without opening a device, issuing a write or waiting, and
\* leaves the registry as it was; the caller goes on, and a call with a known
\* identity that returns after it has issued its full write sequence.
C10_UnknownIdentity ==
    /\ [][(pc = "idle" /\ pc' # "idle" /\ call'.device_id \notin device_configs) =>
            /\ pc' = "returned"
            /\ result' = "NotAvailable"
            /\ log' = <<>>
            /\ hid' = NoHandle
            /\ lastWrite' = lastWrite
            /\ elapsed' = elapsed
            /\ device_configs' = device_configs]_vars
    /\ [][(pc = "returned" /\ result = "NotAvailable") =>
            /\ pc' = "idle"
            /\ UNCHANGED <<device_configs, hid, lastWrite, elapsed>>]_vars
    /\ [](missed =>
            /\ device_configs = NewDeviceConfigs
            /\ (pc = "returned" /\ result = "Ok") =>
                    Kinds(log) = ExpectedKinds(call.mode))

\* after a call has failed for an unknown identity, a later call has returned
\* after its three writes
C10_Witness ==
    /\ missed
    /\ pc = "returned"
    /\ result = "Ok"
    /\ Len(log) = 3

\* the writes of the call that have failed
FailedWrites(l) ==
    {i \in DOMAIN l : ~l[i].ok}

\* C11: a write that fails does not end the call: the call goes on to the sleep
\* that follows that write exactly as after a write that succeeds, with its
\* handle open and no failure recorded; whichever of its writes have failed, the
\* writes of the call stay the first writes of the fixed order, the write after
\* a failed one is issued no sooner than the delay of the failed one, and a call
\* that returns has issued every write of its mode and returns Ok.
C11_WriteFailuresIgnored ==
    /\ [][(Len(log') = Len(log) + 1 /\ ~log'[Len(log')].ok) =>
            /\ pc' = "sleep_" \o log'[Len(log')].kind
            /\ result' = "pending"
            /\ hid' = hid
            /\ hid' = call.device_id]_vars
    /\ [](FailedWrites(log) # {} =>
            /\ IsPrefix(Kinds(log), ExpectedKinds(call.mode))
            /\ \A i \in FailedWrites(log) :
                  i < Len(log) =>
                      /\ log[i + 1].prev = log[i].kind
                      /\ log[i + 1].gap >= MandatedDelay(log[i].kind)
            /\ pc = "returned" =>
                  /\ result = "Ok"
                  /\ Kinds(log) = ExpectedKinds(call.mode))

\* a Manual call has returned Ok after its RGB-sync write and its speed write
\* failed and its channel-mode write succeeded
C11_Witness ==
    /\ pc = "returned"
    /\ result = "Ok"
    /\ Len(log) = 3
    /\ ~log[1].ok
    /\ log[2].ok
    /\ ~log[3].ok

\* C12: a call for a known device with a channel index that is not one of the
\* controller's channels does not end in a panic, and when it returns it returns
\* a failure, not Ok; no call ends in a panic over its speed either.
C12_ChannelRangeChecked ==
    /\ pc # "panic_scale"
    /\ (pc # "idle" /\ Resolves(call.device_id)
            /\ call.channel \notin 0..(ChannelCount - 1)) =>
          /\ pc \notin {"panic_shift", "panic_channel"}
          /\ pc = "returned" => result \notin {"Ok", "pending", "none"}

\* the steps of set_fan_speed between the opening of the device and the return
InSequence ==
    {"sync", "sleep_sync", "mode", "sleep_mode", "speed", "sleep_speed"}

\* C13: a handle is open only while a call is between the opening of its device
\* and its return, and it is then the one handle of the device of that call;
\* when no call is in progress, when a call has returned (with Ok whatever its
\* writes did, or with the failure of an unknown identity) and when a call has
\* not opened its device, no handle is open.
C13_HandleScoped ==
    /\ hid # NoHandle =>
          /\ pc \in InSequence
          /\ hid = call.device_id
          /\ Resolves(hid)
    /\ pc \in {"idle", "returned", "open", "exited"} => hid = NoHandle
    /\ pc \in InSequence => hid # NoHandle

\* a call has returned Ok after a write of it failed, and no handle is open
C13_Witness ==
    /\ pc = "returned"
    /\ result = "Ok"
    /\ FailedWrites(log) # {}
    /\ hid = NoHandle

-----------------------------------------------------------------------------
\* The specification of the main.rs controller.

InitMain ==
    /\ device_configs = NewDeviceConfigs
    /\ overflow_checks = FALSE
    /\ pc = "idle"
    /\ call = NoCall
    /\ hid = NoHandle
    /\ log = <<>>
    /\ lastWrite = "none"
    /\ elapsed = 0
    /\ result = "none"
    /\ missed = FALSE
    /\ curve_points = <<>>
    /\ temperature = 0
    /\ speed = NoSpeed
    /\ MainConstructed

MainSetFanSpeed ==
    \E device_id \in MainCallIds, channel \in MainChannelInputs,
       speed_percent \in MainSpeedInputs :
        MainCall(device_id, channel, speed_percent)

NextMain ==
    \/ MainSetFanSpeed
    \/ RunSkip
    \/ RunOpenFail
    \/ RunDevice
    \/ RunReturn
    \/ MainResume

SpecMain == InitMain /\ [][NextMain]_vars

\* C14: a call set_fan_speed(D, c, s) of the main.rs controller writes reports
\* to controller D alone, and between calls the last speed report of every
\* channel is the report of the speed most recently passed to set_fan_speed for
\* that controller and channel.
C14_WritesTargetOnly ==
    /\ main_pc \in {"run", "returned", "exited"} =>
          written \subseteq {main_call.device_id}
    /\ main_pc = "idle" =>
          \A d \in ControllerIds, x \in 1..ChannelCount :
              passed[d][x] # NoSpeed =>
                  commanded[d][x] = SpeedReport(d.product_id, x - 1, passed[d][x][1])

-----------------------------------------------------------------------------
\* Curve evaluator (src/curve.rs).

CurvePoint(t, s) ==
    [temperature_celsius |-> t, fan_speed_percent |-> s]

\* an unstable sort: p goes in front of the points of its own temperature
RECURSIVE InsertByTemperature_BeforeEqual(_, _)
InsertByTemperature_BeforeEqual(sorted, p) ==
    IF sorted = <<>> THEN <<p>>
    ELSE IF p.temperature_celsius <= sorted[1].temperature_celsius
         THEN <<p>> \o sorted
         ELSE <<sorted[1]>> \o InsertByTemperature_BeforeEqual(Tail(sorted), p)

\* where sort_by puts p into an ascending sequence: behind every point whose
\* temperature is not greater (the sort is stable)
RECURSIVE InsertByTemperature(_, _)
InsertByTemperature(sorted, p) ==
    IF sorted = <<>> THEN <<p>>
    ELSE IF p.temperature_celsius < sorted[1].temperature_celsius
         THEN <<p>> \o sorted
         ELSE <<sorted[1]>> \o InsertByTemperature(Tail(sorted), p)

\* the sort left out
sorted_points_Unsorted(points) ==
    points

\* points.clone() sorted by temperature_celsius with the stable sort_by
RECURSIVE sorted_points(_)
sorted_points(points) ==
    IF points = <<>> THEN <<>>
    ELSE InsertByTemperature(sorted_points(SubSeq(points, 1, Len(points) - 1)),
                             points[Len(points)])

\* the cast without round(): the fraction is cut off
Round_Truncates(num, den) ==
    num \div den

\* f64::round of num / den (den > 0): to the nearest integer, a half away from
\* zero. The f64 value of speed1 + (temp_offset / temp_range) * speed_range is
\* the exact one wherever it decides the rounding for temp_range below 10 steps
\* (every curve of CurveInputs) and at the temperatures of TestTemperatures; a
\* wider range can bring an exact half out just below the half (7/12 of an odd
\* speed_range), which then rounds down.
Round(num, den) ==
    IF num >= 0 THEN (2 * num + den) \div (2 * den)
    ELSE 0 - ((den - 2 * num) \div (2 * den))

\* .clamp(0.0, 100.0) as u8
ClampPercent(x) ==
    IF x < 0 THEN 0 ELSE IF x > PercentMax THEN PercentMax ELSE x

\* interpolate: speed1 + (temp_offset / temp_range) * speed_range, rounded and
\* clamped. A zero temp_range makes the quotient 0/0 = NaN (temp_offset is 0 as
\* temp1 <= current_temp <= temp2), and NaN as u8 is 0.
interpolate(temp1, speed1, temp2, speed2, current_temp) ==
    LET temp_range == temp2 - temp1
        speed_range == speed2 - speed1
        temp_offset == current_temp - temp1
    IN  IF temp_range = 0 THEN 0
        ELSE ClampPercent(Round(speed1 * temp_range + temp_offset * speed_range,
                                temp_range))

\* the f64 that is not a number, as a temperature: it stands outside the grid,
\* below every temperature of the model
NaN == 0 - 1

\* a <= b on f64: false when either side is NaN
Le(a, b) ==
    a # NaN /\ b # NaN /\ a <= b

\* a >= b on f64: false when either side is NaN
Ge(a, b) ==
    a # NaN /\ b # NaN /\ a >= b

\* the indices i of the loop whose pair (i, i + 1) brackets the temperature
Brackets(sorted, t) ==
    {i \in 1..(Len(sorted) - 1) :
        /\ Ge(t, sorted[i].temperature_celsius)
        /\ Le(t, sorted[i + 1].temperature_celsius)}

\* the first index the for loop reaches
FirstOf(indices) ==
    CHOOSE i \in indices : \A j \in indices : i <= j

calculate_fan_speed(points, t) ==
    IF Len(points) = 0 THEN DefaultSpeed
    ELSE IF Len(points) = 1 THEN points[1].fan_speed_percent
    ELSE LET sorted == sorted_points(points)
             last == sorted[Len(sorted)]
         IN  IF Le(t, sorted[1].temperature_celsius)
                 THEN sorted[1].fan_speed_percent
             ELSE IF Ge(t, last.temperature_celsius)
                 THEN last.fan_speed_percent
             ELSE IF Brackets(sorted, t) = {} THEN DefaultSpeed
             ELSE LET i == FirstOf(Brackets(sorted, t))
                  IN  interpolate(sorted[i].temperature_celsius,
                                  sorted[i].fan_speed_percent,
                                  sorted[i + 1].temperature_celsius,
                                  sorted[i + 1].fan_speed_percent, t)

\* the curve of test_fan_curve_calculation
TestCurve ==
    <<CurvePoint(30, 20), CurvePoint(50, 40), CurvePoint(70, 70),
      CurvePoint(85, 100)>>

\* the temperatures test_fan_curve_calculation evaluates
TestTemperatures == {25, 30, 40, 50, 60, 70, 90}

\* fan_speed_percent is a u8: a low speed, the top of the percentage range and
\* the top of the byte range
SpeedValues == {1, PercentMax, U8Max}

\* the temperatures of the points are multiples of 3, so that the temperatures
\* a third and two thirds of the way between two points are inputs as well
PointValues ==
    {CurvePoint(3 * k, s) : k \in 1..MaxTemp, s \in SpeedValues}

RECURSIVE SeqsUpTo(_, _)
SeqsUpTo(S, n) ==
    IF n = 0 THEN {<<>>}
    ELSE LET shorter == SeqsUpTo(S, n - 1)
         IN  shorter \cup {Append(q, x) : q \in shorter, x \in S}

CurveInputs == SeqsUpTo(PointValues, MaxPoints)

\* temperatures below, at, between and above the temperatures of the points
TemperatureInputs == 0..(3 * (MaxTemp + 1))

\* what get_max_cpu_temperature can hand over: a number, or NaN from a sensor
\* that could not be read
TemperatureReadings == TemperatureInputs \cup {NaN}

\* calculate_fan_speed is applied to the curve and the temperature read
Evaluate ==
    /\ speed = NoSpeed
    /\ speed' = <<calculate_fan_speed(curve_points, temperature)>>
    /\ UNCHANGED <<curve_points, temperature>>
    /\ UNCHANGED ctrlVars
    /\ UNCHANGED mainVars

InitCurve ==
    /\ device_configs = NewDeviceConfigs
    /\ overflow_checks = FALSE
    /\ pc = "idle"
    /\ call = NoCall
    /\ hid = NoHandle
    /\ log = <<>>
    /\ lastWrite = "none"
    /\ elapsed = 0
    /\ result = "none"
    /\ missed = FALSE
    /\ \/ curve_points \in CurveInputs /\ temperature \in TemperatureReadings
       \/ curve_points = TestCurve /\ temperature \in TestTemperatures
    /\ speed = NoSpeed
    /\ MainConstructed

NextCurve ==
    Evaluate

SpecCurve == InitCurve /\ [][NextCurve]_vars

-----------------------------------------------------------------------------
\* Properties of calculate_fan_speed.

Temperatures(points) ==
    {points[i].temperature_celsius : i \in DOMAIN points}

MinTemperature(points) ==
    CHOOSE t \in Temperatures(points) : \A u \in Temperatures(points) : t <= u

MaxTemperature(points) ==
    CHOOSE t \in Temperatures(points) : \A u \in Temperatures(points) : u <= t

Abs(x) ==
    IF x < 0 THEN 0 - x ELSE x

\* r is an integer nearest to num / den (den > 0)
IsNearest(r, num, den) ==
    2 * Abs(num - r * den) <= den

\* v is the linear interpolation between the points p1 and p2 at t, rounded to
\* a nearest integer and clamped to 0..100
IsInterpolation(v, p1, p2, t) ==
    LET den == p2.temperature_celsius - p1.temperature_celsius
        num == p1.fan_speed_percent * den
               + (t - p1.temperature_celsius)
                 * (p2.fan_speed_percent - p1.fan_speed_percent)
    IN  \E r \in 0..U8Max :
            /\ IsNearest(r, num, den)
            /\ v = (IF r > 100 THEN 100 ELSE r)

\* p1 and p2 are neighbours in ascending-temperature order and bracket t
IsBracket(points, p1, p2, t) ==
    /\ p1.temperature_celsius < p2.temperature_celsius
    /\ p1.temperature_celsius <= t
    /\ t <= p2.temperature_celsius
    /\ \A k \in DOMAIN points :
          \/ points[k].temperature_celsius <= p1.temperature_celsius
          \/ points[k].temperature_celsius >= p2.temperature_celsius

\* C3: for a curve of at least two points and a temperature strictly between
\* its lowest and highest point temperature, the result is the linear
\* interpolation over a pair of points adjacent in ascending-temperature order
\* that bracket the temperature, rounded to the nearest integer and clamped to
\* 0..100; for the points 30->20, 50->40, 70->70, 85->100 it is 30 at 40, 40 at
\* 50, 55 at 60 and 70 at 70.
C3_Interpolation ==
    (speed # NoSpeed /\ Len(curve_points) >= 2) =>
        /\ (/\ MinTemperature(curve_points) < temperature
            /\ temperature < MaxTemperature(curve_points)) =>
                \E i, j \in DOMAIN curve_points :
                    /\ IsBracket(curve_points, curve_points[i], curve_points[j],
                                 temperature)
                    /\ IsInterpolation(speed[1], curve_points[i], curve_points[j],
                                       temperature)
        /\ curve_points = TestCurve =>
                /\ temperature = 40 => speed[1] = 30
                /\ temperature = 50 => speed[1] = 40
                /\ temperature = 60 => speed[1] = 55
                /\ temperature = 70 => speed[1] = 70

\* a temperature a third of the way between two points, where the interpolated
\* value 1 + 254 / 3 is rounded up to 86
C3_Witness ==
    /\ curve_points = <<CurvePoint(6, U8Max), CurvePoint(3, 1)>>
    /\ temperature = 4
    /\ speed = <<86>>

\* the first point, in the order given, that has the lowest temperature: the
\* stable sort puts it first
LowestPoint(points) ==
    LET at == {i \in DOMAIN points :
                  points[i].temperature_celsius = MinTemperature(points)}
    IN  points[CHOOSE i \in at : \A j \in at : i <= j]

\* the last point, in the order given, that has the highest temperature: the
\* stable sort puts it last
HighestPoint(points) ==
    LET at == {i \in DOMAIN points :
                  points[i].temperature_celsius = MaxTemperature(points)}
    IN  points[CHOOSE i \in at : \A j \in at : j <= i]

\* C4 as stated: at or below the lowest point temperature the result is the
\* speed of the lowest point, at or above the highest point temperature it is
\* the speed of the highest point.
C4_Clamps ==
    (speed # NoSpeed /\ Len(curve_points) >= 2) =>
        /\ Le(temperature, MinTemperature(curve_points)) =>
              speed[1] = LowestPoint(curve_points).fan_speed_percent
        /\ Ge(temperature, MaxTemperature(curve_points)) =>
              speed[1] = HighestPoint(curve_points).fan_speed_percent

\* C4 amended: at or below the lowest point temperature the result is the speed
\* of the lowest point; at or above the highest point temperature, and above
\* the lowest, it is the speed of the highest point.
C4_ClampsLowFirst ==
    (speed # NoSpeed /\ Len(curve_points) >= 2) =>
        /\ Le(temperature, MinTemperature(curve_points)) =>
              speed[1] = LowestPoint(curve_points).fan_speed_percent
        /\ (/\ Ge(temperature, MaxTemperature(curve_points))
            /\ temperature > MinTemperature(curve_points)) =>
              speed[1] = HighestPoint(curve_points).fan_speed_percent

\* the high clamp among three points given out of order, two of which share
\* the highest temperature
C4_Witness ==
    /\ curve_points = <<CurvePoint(6, 1), CurvePoint(3, U8Max), CurvePoint(6, 100)>>
    /\ temperature = 6
    /\ speed = <<100>>

\* C5: the result of calculate_fan_speed lies in 0..100.
C5_ResultInRange ==
    speed # NoSpeed => speed[1] \in 0..100

\* C6: an empty curve yields 50 and a one-point curve yields the speed of its
\* point, whatever the temperature.
C6_ShortCurves ==
    speed # NoSpeed =>
        /\ Len(curve_points) = 0 => speed[1] = 50
        /\ Len(curve_points) = 1 => speed[1] = curve_points[1].fan_speed_percent

\* the empty curve evaluated at a temperature above every point temperature
C6_Witness ==
    /\ curve_points = <<>>
    /\ temperature = 3 * MaxTemp + 1
    /\ speed = <<50>>

\* the temperatures a curve is evaluated at
EvalTemperatures(points) ==
    IF points = TestCurve THEN TestTemperatures ELSE TemperatureInputs

\* calculate_fan_speed is monotonic non-decreasing in the temperature
Rises(points) ==
    \A t1, t2 \in EvalTemperatures(points) :
        t1 <= t2 => calculate_fan_speed(points, t1) <= calculate_fan_speed(points, t2)

\* the points are given in ascending-temperature order
IsAscending(points) ==
    \A i, j \in DOMAIN points :
        i < j => points[i].temperature_celsius <= points[j].temperature_celsius

\* every speed is a percentage, as the data model of a curve point has it
HasPercentSpeeds(points) ==
    \A i \in DOMAIN points : points[i].fan_speed_percent <= 100

\* C7 as stated: for a non-empty curve in ascending-temperature order, the
\* result is monotonic non-decreasing in the temperature if and only if the
\* speeds of the points are monotonic non-decreasing along that order.
C7_MonotonicIff ==
    (/\ speed # NoSpeed
     /\ Len(curve_points) >= 1
     /\ IsAscending(curve_points)
     /\ HasPercentSpeeds(curve_points)) =>
        (Rises(curve_points) <=>
            \A i, j \in DOMAIN curve_points :
                i < j => curve_points[i].fan_speed_percent
                            <= curve_points[j].fan_speed_percent)

\* point i comes before point j in ascending-temperature order
points_before(i, j) ==
    curve_points[i].temperature_celsius < curve_points[j].temperature_celsius

\* no two points share a temperature
HasDistinctTemperatures(points) ==
    \A i, j \in DOMAIN points :
        i # j => points[i].temperature_celsius # points[j].temperature_celsius

\* C7 amended: for a non-empty curve whose points have pairwise distinct
\* temperatures (and speeds of at most 100), given in any order, the result is
\* monotonic non-decreasing in the temperature if and only if the speeds of the
\* points are monotonic non-decreasing in ascending-temperature order.
C7_MonotonicIffDistinct ==
    (/\ speed # NoSpeed
     /\ Len(curve_points) >= 1
     /\ HasDistinctTemperatures(curve_points)
     /\ HasPercentSpeeds(curve_points)) =>
        (Rises(curve_points) <=>
            \A i, j \in DOMAIN curve_points :
                points_before(i, j) => curve_points[i].fan_speed_percent
                                          <= curve_points[j].fan_speed_percent)

\* a rising curve of three points, given out of order, has been evaluated
\* between its points
C7_Witness ==
    /\ curve_points = <<CurvePoint(9, 100), CurvePoint(3, 1), CurvePoint(6, 100)>>
    /\ temperature = 5
    /\ speed = <<67>>
    /\ Rises(curve_points)

\* C15: for a curve of at least two points and any temperature,
\* calculate_fan_speed returns from the low clamp check or from the high clamp
\* check, or the loop finds a bracketing pair and calls interpolate for the
\* first one with temp2 greater than temp1: the temperature range is never zero
\* and the loop never ends without a pair, which would return the fallback 50.
C15_NoFallback ==
    (speed # NoSpeed /\ Len(curve_points) >= 2) =>
        LET sorted == sorted_points(curve_points)
            last == sorted[Len(sorted)]
            found == Brackets(sorted, temperature)
        IN  \/ Le(temperature, sorted[1].temperature_celsius)
            \/ Ge(temperature, last.temperature_celsius)
            \/ /\ found # {}
               /\ sorted[FirstOf(found) + 1].temperature_celsius
                     > sorted[FirstOf(found)].temperature_celsius

====
